---- MODULE Spec2Model ----
(***************************************************************************)
(* traffic-snoop (src/traffic.js): one run = getConfig -> getResults ->    *)
(* writeResults.  getResults validates the configured address lists,       *)
(* picks the route direction from the UTC-4 meridiem, issues one axios.get *)
(* per (work, home) pair, awaits Promise.all and extracts one measurement  *)
(* per accepted response.  writeResults turns the measurements into        *)
(* DynamoDB PutRequests and hands them to one batchWriteItem call whose    *)
(* outcome only reaches a callback.                                        *)
(*                                                                         *)
(* JavaScript values: an array is a sequence, an object is a record whose  *)
(* DOMAIN holds the properties that are present, an address string is a    *)
(* sequence of one-character strings.  The wall clock is the hour of the   *)
(* day at UTC-4; the fields the code formats from one reading of the clock *)
(* (date, day, time, timestamp) are carried as that reading.               *)
(***************************************************************************)
EXTENDS Integers, Sequences, FiniteSets, TLC

VARIABLES
    home,        \* config.locations.home
    work,        \* config.locations.work
    isLambda,    \* require('is-lambda')
    network,     \* how the remote API behaves: "free" or "orderly"
    maxRuns,     \* scheduled invocations the scenario allows
    run,         \* number of the current invocation
    clock,       \* hour of the day, UTC-4
    elapsed,     \* hours passed since the current run started
    pc,          \* position of main / handler
    fetchedAt,   \* clock reading getResults took (line 75)
    originKey,   \* getResults' originKey
    direction,   \* getResults' direction
    queue,       \* request URLs handed to axios.get, in push order
    settled,     \* state of every promise of the queue
    arrival,     \* queue indices in the order their promises settled
    results,     \* module-level results
    error,       \* what the run's promise rejected with, or "none"
    log,         \* console output of the current run
    calls,       \* ddb.batchWriteItem calls made so far
    table,       \* items of the DynamoDB table
    uuidClock    \* state of the uuid/v1 generator

vars == <<home, work, isLambda, network, maxRuns, run, clock, elapsed, pc,
          fetchedAt, originKey, direction, queue, settled, arrival, results,
          error, log, calls, table, uuidClock>>

---------------------------------------------------------------------------
(* Bounds of the model *)

\* longest address list of a scenario
MaxLen == 5
\* most (work, home) pairs of a scenario with unordered responses or several runs
MaxPairs == 2
\* most (work, home) pairs of a scenario with every kind of failure
MaxFaultyPairs == 3
\* most invocations of a scenario
MaxRuns == 2
\* most hours that pass during one run
MaxElapsed == 1

(* Constants of the program *)

PermutationLimit == 20
Noon == 12
HoursPerDay == 24
HttpOk == 200

TableName == "config.aws.table"
ApiKey == "config.google.key"
GOOGLE_API_ENDPOINT == "https://maps.googleapis.com/maps/api/distancematrix/json"

ConfigErrorMsg == "Could not find location pair to measure."
LimitErrorMsg == "Exceeded permutations limit."
RequestErrorMsg == "axios: request failed"
TypeErrorMsg == "TypeError: cannot read property of undefined"

---------------------------------------------------------------------------
(* Configuration *)

\* the i-th address of a list: role, a blank, then i in unary
Address(role, i) == <<role, " ">> \o [k \in 1..i |-> "1"]

AddressList(role, n) == [i \in 1..n |-> Address(role, i)]

---------------------------------------------------------------------------
(* getDistanceRequest *)

Whitespace == {" ", "\t", "\n"}

\* origin.replace(/\s/g, '+')
ReplaceWhitespace(s) == [k \in DOMAIN s |-> IF s[k] \in Whitespace THEN "+" ELSE s[k]]

P(key, value) == [key |-> key, value |-> value]

\* the URL, as its endpoint and its key=value pairs in insertion order
getDistanceRequest(origin, destination) ==
    [endpoint |-> GOOGLE_API_ENDPOINT,
     params |-> << P("units", <<"imperial">>),
                   P("mode", <<"driving">>),
                   P("key", <<ApiKey>>),
                   P("language", <<"en-EN">>),
                   P("departure_time", <<"now">>),
                   P("origins", ReplaceWhitespace(origin)),
                   P("destinations", ReplaceWhitespace(destination)) >>]

\* value of a query parameter of a request URL
Param(req, key) ==
    LET k == CHOOSE k \in DOMAIN req.params : req.params[k].key = key
    IN  req.params[k].value

---------------------------------------------------------------------------
(* getResults: validation, direction, queue *)

\* the limit test written with >= in place of >
ValidateConfigInclusive(workList, homeList) ==
    IF Len(workList) = 0 \/ Len(homeList) = 0 THEN ConfigErrorMsg
    ELSE IF Len(workList) * Len(homeList) >= PermutationLimit THEN LimitErrorMsg
    ELSE "ok"

\* "ok", or the message of the Error thrown
ValidateConfig(workList, homeList) ==
    IF Len(workList) = 0 \/ Len(homeList) = 0 THEN ConfigErrorMsg
    ELSE IF Len(workList) * Len(homeList) > PermutationLimit THEN LimitErrorMsg
    ELSE "ok"

\* DateTime.local().setZone('UTC-4').toFormat('a').toLowerCase()
Meridiem(hour) == IF hour < Noon THEN "am" ELSE "pm"

\* the afternoon taken to start after the noon hour
OriginKeyAfterNoonHour(hour) == IF hour > Noon THEN "work" ELSE "home"

OriginKeyAt(hour) == IF Meridiem(hour) = "pm" THEN "work" ELSE "home"

DirectionAt(hour) == IF Meridiem(hour) = "pm" THEN "work->home" ELSE "home->work"

ApiRequest(key, workAddress, homeAddress) ==
    IF key = "home" THEN getDistanceRequest(homeAddress, workAddress)
    ELSE getDistanceRequest(workAddress, homeAddress)

RECURSIVE ForEachHome(_, _, _, _)
ForEachHome(key, workAddress, homeList, q) ==
    IF homeList = <<>> THEN q
    ELSE ForEachHome(key, workAddress, Tail(homeList),
                     Append(q, ApiRequest(key, workAddress, Head(homeList))))

RECURSIVE ForEachWork(_, _, _, _)
ForEachWork(key, workList, homeList, q) ==
    IF workList = <<>> THEN q
    ELSE ForEachWork(key, Tail(workList), homeList,
                     ForEachHome(key, Head(workList), homeList, q))

BuildQueue(key, workList, homeList) == ForEachWork(key, workList, homeList, <<>>)

---------------------------------------------------------------------------
(* The remote API and axios.get *)

\* the address the API resolved a query parameter to
FormattedAddress(param) ==
    [k \in DOMAIN param |-> IF param[k] = "+" THEN " " ELSE param[k]] \o <<",", " ", "USA">>

DurationText == "15 mins"

GoodElement == [status |-> "OK", duration |-> [text |-> DurationText]]

\* what one GET can come back with
ResponseKinds == {"good", "notOK", "noRows", "emptyRows", "noDuration",
                  "noOrigins", "httpError", "networkError"}

\* kinds whose body passes the test of lines 98-101 and breaks lines 104-106
MalformedKinds == {"emptyRows", "noDuration", "noOrigins"}

\* the HTTP exchange of one GET: a response, or no response at all
HttpExchange(kind, req) ==
    LET origins == <<FormattedAddress(Param(req, "origins"))>>
        destinations == <<FormattedAddress(Param(req, "destinations"))>>
        reply(body) == [type |-> "response", kind |-> kind,
                        response |-> [status |-> HttpOk, data |-> body]]
    IN CASE kind = "good" ->
              reply([status |-> "OK", origin_addresses |-> origins,
                     destination_addresses |-> destinations,
                     rows |-> << [elements |-> <<GoodElement>>] >>])
         [] kind = "notOK" ->
              reply([status |-> "REQUEST_DENIED", origin_addresses |-> <<>>,
                     destination_addresses |-> <<>>, rows |-> <<>>])
         [] kind = "noRows" ->
              reply([status |-> "OK", origin_addresses |-> origins,
                     destination_addresses |-> destinations])
         [] kind = "emptyRows" ->
              reply([status |-> "OK", origin_addresses |-> origins,
                     destination_addresses |-> destinations, rows |-> <<>>])
         [] kind = "noDuration" ->
              reply([status |-> "OK", origin_addresses |-> origins,
                     destination_addresses |-> destinations,
                     rows |-> << [elements |-> << [status |-> "ZERO_RESULTS"] >>] >>])
         [] kind = "noOrigins" ->
              reply([status |-> "OK", destination_addresses |-> destinations,
                     rows |-> << [elements |-> <<GoodElement>>] >>])
         [] kind = "httpError" ->
              [type |-> "response", kind |-> kind,
               response |-> [status |-> 500, data |-> [status |-> "UNKNOWN_ERROR"]]]
         [] kind = "networkError" ->
              [type |-> "none", kind |-> kind]

\* axios.get: the promise fulfils with a 2xx response and rejects otherwise
AxiosSettle(exchange) ==
    IF exchange.type = "response"
       /\ exchange.response.status >= 200 /\ exchange.response.status < 300
    THEN [state |-> "fulfilled", kind |-> exchange.kind, value |-> exchange.response]
    ELSE [state |-> "rejected", kind |-> exchange.kind, reason |-> RequestErrorMsg]

Pending == [state |-> "pending"]

---------------------------------------------------------------------------
(* Promise.all *)

PromiseAllState(promises) ==
    IF \E i \in DOMAIN promises : promises[i].state = "rejected" THEN "rejected"
    ELSE IF \A i \in DOMAIN promises : promises[i].state = "fulfilled" THEN "fulfilled"
    ELSE "pending"

\* the values collected as the promises settle
PromiseAllValuesAsSettled(promises, order) == [k \in DOMAIN order |-> promises[order[k]].value]

\* the array Promise.all fulfils with: the values in the order of the input
PromiseAllValues(promises, order) == [i \in DOMAIN promises |-> promises[i].value]

---------------------------------------------------------------------------
(* getResults: gathering the responses *)

Has(obj, property) == property \in DOMAIN obj

\* the test of lines 98-101; an empty array is truthy
Accepts(response) ==
    /\ response.status = HttpOk
    /\ Has(response, "data")
    /\ Has(response.data, "status")
    /\ response.data.status = "OK"
    /\ Has(response.data, "rows")

\* lines 104-106 read a property of undefined
Throws(data) ==
    \/ ~Has(data, "origin_addresses")
    \/ ~Has(data, "destination_addresses")
    \/ Len(data.rows) = 0
    \/ ~Has(data.rows[1], "elements")
    \/ Len(data.rows[1].elements) = 0
    \/ ~Has(data.rows[1].elements[1], "duration")

Undefined == <<"undefined">>

First(array) == IF Len(array) = 0 THEN Undefined ELSE array[1]

Measurement(data) ==
    [origin |-> First(data.origin_addresses),
     destination |-> First(data.destination_addresses),
     travelTime |-> IF Has(data.rows[1].elements[1].duration, "text")
                    THEN data.rows[1].elements[1].duration.text ELSE "undefined"]

\* the forEach of lines 97-109: the responses pushed, or the throw that ends it
RECURSIVE ForEachResponse(_, _)
ForEachResponse(values, responses) ==
    IF values = <<>> THEN [threw |-> FALSE, responses |-> responses]
    ELSE LET response == Head(values) IN
         IF Accepts(response)
         THEN IF Throws(response.data)
              THEN [threw |-> TRUE, responses |-> responses]
              ELSE ForEachResponse(Tail(values),
                                   Append(responses, Measurement(response.data)))
         ELSE ForEachResponse(Tail(values), responses)

---------------------------------------------------------------------------
(* writeResults *)

CommuteLabel(hour) == IF Meridiem(hour) = "am" THEN "home -> work" ELSE "work -> home"

\* one identifier generated per call of writeResults instead of one per record
UuidPerCall(uuid0, k) == uuid0 + 1

\* uuidv1(): the k-th identifier generated after the generator state uuid0
Uuid(uuid0, k) == uuid0 + k

PutRequest(result, uuid, hour) ==
    [uuid |-> uuid,
     origin |-> result.origin,
     destination |-> result.destination,
     travelTime |-> result.travelTime,
     commute |-> CommuteLabel(hour),
     time |-> hour]

\* results.map(...) of lines 128-146
RequestItems(rs, uuid0, hour) ==
    [k \in DOMAIN rs |-> PutRequest(rs[k], Uuid(uuid0, k), hour)]

\* the table after DynamoDB has put the items: an item replaces the one with its key
BatchPut(items, requestItems) ==
    LET keys == {requestItems[k].uuid : k \in DOMAIN requestItems}
    IN  {it \in items : it.uuid \notin keys} \cup {requestItems[k] : k \in DOMAIN requestItems}

\* console output of the batchWriteItem callback
CallbackLog(err, lambda) ==
    IF err THEN <<"Batch write error:">>
    ELSE IF lambda THEN <<>> ELSE <<"Batch write was successful.">>

---------------------------------------------------------------------------
(* Scenarios: the configuration and the environment of a sequence of runs *)

\* the outcomes the remote API produces in a scenario.  "orderly": every GET
\* succeeds, answered in the order of issue; "unordered": every GET gets a
\* well-formed body, OK or not, in any order; "faulty": anything, in any order
NetworkKinds(net) ==
    CASE net = "orderly" -> {"good"}
      [] net = "unordered" -> {"good", "notOK"}
      [] net = "faulty" -> ResponseKinds

Shapes == [h : 0..MaxLen, w : 0..MaxLen]

Scenario(shape, net, runs) ==
    [h |-> shape.h, w |-> shape.w, network |-> net, runs |-> runs]

\* one run over address lists of any length
Limits == {Scenario(x, "orderly", 1) : x \in Shapes}

\* several runs over a few pairs
Repeats == {Scenario(x, "orderly", MaxRuns) : x \in {y \in Shapes : y.h * y.w <= MaxPairs}}

\* one run over a few pairs, answered in any order
Unordered ==
    {Scenario(x, "unordered", 1) : x \in {y \in Shapes : y.h * y.w \in 1..MaxPairs}}

\* one run over a few pairs, with every kind of failure
Faulty ==
    {Scenario(x, "faulty", 1) : x \in {y \in Shapes : y.h * y.w \in 1..MaxFaultyPairs}}

\* clock readings a scenario starts at: both sides of both meridiem changes
StartHours == {0, Noon - 1, Noon, HoursPerDay - 1}

InitOf(scenarios) ==
    /\ \E s \in scenarios :
          /\ home = AddressList("H", s.h)
          /\ work = AddressList("W", s.w)
          /\ network = s.network
          /\ maxRuns = s.runs
    /\ isLambda \in BOOLEAN
    /\ clock \in StartHours
    /\ run = 1
    /\ elapsed = 0
    /\ pc = "start"
    /\ fetchedAt = clock
    /\ originKey = "none"
    /\ direction = "none"
    /\ queue = <<>>
    /\ settled = <<>>
    /\ arrival = <<>>
    /\ results = <<>>
    /\ error = "none"
    /\ log = <<>>
    /\ calls = <<>>
    /\ table = {}
    /\ uuidClock = 0

Init == InitOf(Limits \cup Repeats \cup Unordered)

InitFaults == InitOf(Faulty \cup Repeats)

config == <<home, work, isLambda, network, maxRuns>>

---------------------------------------------------------------------------
(* Actions *)

\* main / handler calls getResults: lines 55-92, up to the await of line 97
GetResultsCall ==
    /\ pc = "start"
    /\ fetchedAt' = clock
    /\ IF ValidateConfig(work, home) # "ok"
       THEN /\ pc' = "failed"
            /\ error' = ValidateConfig(work, home)
            /\ UNCHANGED <<originKey, direction, queue, settled>>
       ELSE /\ originKey' = OriginKeyAt(clock)
            /\ direction' = DirectionAt(clock)
            /\ queue' = BuildQueue(OriginKeyAt(clock), work, home)
            /\ settled' = [i \in DOMAIN queue' |-> Pending]
            /\ pc' = "awaiting"
            /\ error' = error
    /\ UNCHANGED <<config, run, clock, elapsed, arrival, results, log, calls,
                   table, uuidClock>>

\* a microtask is due: Promise.all has settled and getResults has not resumed
MicrotaskDue == pc = "awaiting" /\ PromiseAllState(settled) # "pending"

\* the outcome of one GET arrives and settles its promise
Settle(i, kind) ==
    /\ i \in DOMAIN settled
    /\ settled[i].state = "pending"
    /\ ~MicrotaskDue
    /\ kind \in NetworkKinds(network)
    /\ network = "orderly" => \A j \in 1..(i - 1) : settled[j].state # "pending"
    /\ settled' = [settled EXCEPT ![i] = AxiosSettle(HttpExchange(kind, queue[i]))]
    /\ arrival' = Append(arrival, i)
    /\ UNCHANGED <<config, run, clock, elapsed, pc, fetchedAt, originKey, direction,
                   queue, results, error, log, calls, table, uuidClock>>

\* getResults resumes from the await of line 97: lines 97-111
GetResultsResume ==
    /\ pc = "awaiting"
    /\ PromiseAllState(settled) # "pending"
    /\ IF PromiseAllState(settled) = "rejected"
       THEN /\ pc' = "failed"
            /\ error' = RequestErrorMsg
            /\ results' = results
       ELSE LET each == ForEachResponse(PromiseAllValues(settled, arrival), <<>>) IN
            IF each.threw
            THEN /\ pc' = "failed"
                 /\ error' = TypeErrorMsg
                 /\ results' = results
            ELSE /\ pc' = "gotResults"
                 /\ error' = error
                 /\ results' = each.responses
    /\ UNCHANGED <<config, run, clock, elapsed, fetchedAt, originKey, direction,
                   queue, settled, arrival, log, calls, table, uuidClock>>

\* main / handler resumes from the await of getResults: lines 186, 197-203,
\* with the whole of writeResults (lines 116-159, the callback is registered)
WriteResultsCall ==
    /\ pc = "gotResults"
    /\ calls' = Append(calls, [run |-> run, table |-> TableName,
                               items |-> RequestItems(results, uuidClock, clock),
                               outcome |-> "pending"])
    /\ uuidClock' = uuidClock + Len(results)
    /\ log' = IF isLambda THEN log
              ELSE log \o <<"Got result times,", "Recording to database...", "Complete.">>
    /\ pc' = "complete"
    /\ UNCHANGED <<config, run, clock, elapsed, fetchedAt, originKey, direction,
                   queue, settled, arrival, results, error, table>>

\* the callback rethrowing the error it is given
BatchWriteCallbackRethrows(c, err) ==
    /\ c \in DOMAIN calls
    /\ calls[c].outcome = "pending"
    /\ calls' = [calls EXCEPT ![c].outcome = IF err THEN "error" ELSE "success"]
    /\ table' = IF err THEN table ELSE BatchPut(table, calls[c].items)
    /\ log' = log \o CallbackLog(err, isLambda)
    /\ pc' = IF err /\ calls[c].run = run THEN "failed" ELSE pc
    /\ error' = IF err /\ calls[c].run = run THEN "Batch write error" ELSE error
    /\ UNCHANGED <<config, run, clock, elapsed, fetchedAt, originKey, direction,
                   queue, settled, arrival, results, uuidClock>>

\* DynamoDB reports the outcome of a batchWriteItem: the callback of lines 152-159
BatchWriteCallback(c, err) ==
    /\ c \in DOMAIN calls
    /\ calls[c].outcome = "pending"
    /\ calls' = [calls EXCEPT ![c].outcome = IF err THEN "error" ELSE "success"]
    /\ table' = IF err THEN table ELSE BatchPut(table, calls[c].items)
    /\ log' = log \o CallbackLog(err, isLambda)
    /\ UNCHANGED <<config, run, clock, elapsed, pc, fetchedAt, originKey, direction,
                   queue, settled, arrival, results, error, uuidClock>>

\* an hour passes
Tick ==
    /\ elapsed < MaxElapsed
    /\ clock' = (clock + 1) % HoursPerDay
    /\ elapsed' = elapsed + 1
    /\ UNCHANGED <<config, run, pc, fetchedAt, originKey, direction, queue, settled,
                   arrival, results, error, log, calls, table, uuidClock>>

\* the scheduler invokes the function again once the previous run is over
NextRun ==
    /\ pc \in {"complete", "failed"}
    /\ \A i \in DOMAIN settled : settled[i].state # "pending"
    /\ \A c \in DOMAIN calls : calls[c].outcome # "pending"
    /\ run < maxRuns
    /\ run' = run + 1
    /\ elapsed' = 0
    /\ pc' = "start"
    /\ fetchedAt' = clock
    /\ originKey' = "none"
    /\ direction' = "none"
    /\ queue' = <<>>
    /\ settled' = <<>>
    /\ arrival' = <<>>
    /\ results' = <<>>
    /\ error' = "none"
    /\ log' = <<>>
    /\ UNCHANGED <<config, clock, calls, table, uuidClock>>

Next ==
    \/ GetResultsCall
    \/ \E i \in 1..PermutationLimit, kind \in ResponseKinds : Settle(i, kind)
    \/ GetResultsResume
    \/ WriteResultsCall
    \/ \E c \in 1..MaxRuns, err \in BOOLEAN : BatchWriteCallback(c, err)
    \/ Tick
    \/ NextRun

Spec == Init /\ [][Next]_vars

SpecFaults == InitFaults /\ [][Next]_vars

---------------------------------------------------------------------------
(* Vocabulary of the properties *)

Pairs == Len(home) * Len(work)

\* getResults has left its await, by returning or by throwing
Finished == pc \in {"failed", "gotResults", "complete"}

Returned == pc \in {"gotResults", "complete"}

\* the batchWriteItem calls of the current run
CurrentCalls == {c \in DOMAIN calls : calls[c].run = run}

\* an address as it appears in a query: every blank replaced by a plus
Plussed(address) == [k \in DOMAIN address |-> IF address[k] = " " THEN "+" ELSE address[k]]

\* queue indices whose GET was answered with a well-formed OK body
GoodIndices == {i \in DOMAIN settled : settled[i].state = "fulfilled" /\ settled[i].kind = "good"}

\* the k-th smallest element of a set of numbers
Kth(S, k) == CHOOSE i \in S : Cardinality({j \in S : j < i}) = k - 1

\* the measurement the response to a query carries
MeasurementOf(i) ==
    [origin |-> FormattedAddress(Param(queue[i], "origins")),
     destination |-> FormattedAddress(Param(queue[i], "destinations")),
     travelTime |-> DurationText]

\* results holds exactly the measurements of the good responses, in queue order
ResultsAreGoodOnesInQueueOrder ==
    /\ Len(results) = Cardinality(GoodIndices)
    /\ \A k \in DOMAIN results : results[k] = MeasurementOf(Kth(GoodIndices, k))

AllSettled == \A i \in DOMAIN settled : settled[i].state # "pending"

AllFulfilled == \A i \in DOMAIN settled : settled[i].state = "fulfilled"

---------------------------------------------------------------------------
(* Properties *)

\* C1: a GET whose promise rejects (HTTP error status or network error) only
\* drops its own pair: once every query has settled, with at least one
\* rejection and no malformed body, getResults has returned the measurements
\* of all the good responses.
C1_RejectedQueryDropsOnlyItsPair ==
    ( /\ Finished
      /\ queue # <<>>
      /\ AllSettled
      /\ \E i \in DOMAIN settled : settled[i].state = "rejected"
      /\ \A i \in DOMAIN settled : settled[i].kind \notin MalformedKinds )
    => (Returned /\ ResultsAreGoodOnesInQueueOrder)

\* C2: in a batch of fulfilled responses, a response that is not OK or has no
\* rows contributes nothing, and its accepted siblings appear in the output.
C2_NotOkResponseLeavesSiblings ==
    ( /\ Finished
      /\ queue # <<>>
      /\ AllFulfilled
      /\ \E i \in DOMAIN settled : settled[i].kind \in {"notOK", "noRows"}
      /\ GoodIndices # {} )
    => (Returned /\ ResultsAreGoodOnesInQueueOrder)

\* C3: with an empty list or more than 20 pairs getResults throws before any
\* query is issued and the run makes no batchWriteItem call; exactly 20 pairs
\* are not rejected.
C3_InvalidConfigFailsBeforeAnyQuery ==
    /\ (pc # "start" /\ (Len(home) = 0 \/ Len(work) = 0)) =>
          (pc = "failed" /\ error = ConfigErrorMsg /\ queue = <<>> /\ CurrentCalls = {})
    /\ (pc # "start" /\ Pairs > 20) =>
          (pc = "failed" /\ error = LimitErrorMsg /\ queue = <<>> /\ CurrentCalls = {})
    /\ (pc # "start" /\ Pairs \in 1..20) =>
          (error \notin {ConfigErrorMsg, LimitErrorMsg} /\ Len(queue) = Pairs)

C3_Witness ==
    /\ pc = "failed"
    /\ Pairs > 20
    /\ error = LimitErrorMsg
    /\ queue = <<>>

\* C4: for non-empty lists of at most 20 pairs, the queue holds one query per
\* (work, home) pair, work outer and home inner, from home to work when
\* getResults ran before noon and from work to home otherwise.
C4_OneQueryPerPairInDirection ==
    (pc # "start" /\ Pairs \in 1..20) =>
        /\ Len(queue) = Pairs
        /\ \A wi \in DOMAIN work, hi \in DOMAIN home :
              LET q == queue[(wi - 1) * Len(home) + hi] IN
              IF fetchedAt < 12
              THEN /\ Param(q, "origins") = Plussed(home[hi])
                   /\ Param(q, "destinations") = Plussed(work[wi])
              ELSE /\ Param(q, "origins") = Plussed(work[wi])
                   /\ Param(q, "destinations") = Plussed(home[hi])

C4_Witness ==
    /\ pc = "awaiting"
    /\ fetchedAt = 12
    /\ Len(home) = 4
    /\ Len(work) = 5

\* C5: the commute label of every record of a run names the direction the
\* run's queries were built with.
C5_LabelMatchesQueryDirection ==
    \A c \in CurrentCalls : \A k \in DOMAIN calls[c].items :
        calls[c].items[k].commute =
            (IF originKey = "home" THEN "home -> work" ELSE "work -> home")

\* C6: writeResults makes exactly one batchWriteItem call, on the configured
\* table, with one record per measurement in input order, every identifier
\* distinct from all others of this and of earlier runs; records already in
\* the table are never changed or removed.
C6_StateOfCalls ==
    /\ \A r \in 1..run : Cardinality({c \in DOMAIN calls : calls[c].run = r}) <= 1
    /\ pc = "complete" => Cardinality(CurrentCalls) = 1
    /\ \A c \in DOMAIN calls : calls[c].table = TableName
    /\ \A c \in CurrentCalls :
          /\ Len(calls[c].items) = Len(results)
          /\ \A k \in DOMAIN results :
                /\ calls[c].items[k].origin = results[k].origin
                /\ calls[c].items[k].destination = results[k].destination
                /\ calls[c].items[k].travelTime = results[k].travelTime
    /\ \A c, d \in DOMAIN calls :
          \A j \in DOMAIN calls[c].items, k \in DOMAIN calls[d].items :
              calls[c].items[j].uuid = calls[d].items[k].uuid => (c = d /\ j = k)

C6_OneRecordPerMeasurementAppendOnly ==
    /\ []C6_StateOfCalls
    /\ [][ /\ table \subseteq table'
           /\ Len(calls') >= Len(calls)
           /\ \A c \in DOMAIN calls : calls'[c].items = calls[c].items ]_vars

C6_Witness ==
    /\ Len(calls) = 2
    /\ calls[1].run = 1
    /\ calls[2].run = 2
    /\ Len(calls[1].items) >= 2
    /\ Len(calls[2].items) >= 2
    /\ Cardinality(table) >= 4

\* C7: a response with HTTP 200 and status OK that is malformed (empty rows,
\* no duration, no origin_addresses) only drops its pair: getResults returns
\* the measurements of the good responses.
C7_MalformedResponseIsNotFatal ==
    ( /\ Finished
      /\ queue # <<>>
      /\ AllFulfilled
      /\ \E i \in DOMAIN settled : settled[i].kind \in MalformedKinds )
    => (Returned /\ ResultsAreGoodOnesInQueueOrder)

\* C8: whatever the batchWriteItem call of a run reports, or before it has
\* reported, the run is complete with nothing raised, the call was made once,
\* and a failure shows only as a console line.
C8_WriteFailureIsOnlyLogged ==
    /\ \A r \in 1..run : Cardinality({c \in DOMAIN calls : calls[c].run = r}) <= 1
    /\ \A c \in CurrentCalls :
          /\ pc = "complete"
          /\ error = "none"
          /\ ~isLambda => \E k \in DOMAIN log : log[k] = "Complete."
          /\ calls[c].outcome = "error" =>
                \E k \in DOMAIN log : log[k] = "Batch write error:"

C8_Witness ==
    \E c \in CurrentCalls :
        /\ calls[c].outcome = "error"
        /\ pc = "complete"
        /\ calls[c].items # <<>>

\* C9: the list getResults returns holds the accepted measurements in the
\* order the queries were built, whatever the order the responses arrived in.
C9_ResultsInQueueOrder ==
    Returned => ResultsAreGoodOnesInQueueOrder

C9_Witness ==
    /\ pc = "gotResults"
    /\ Len(results) >= 2
    /\ \E j, k \in DOMAIN arrival :
          /\ j < k
          /\ arrival[j] > arrival[k]
          /\ {arrival[j], arrival[k]} \subseteq GoodIndices

\* C10: getResults has not finished while one of its queries is outstanding.
C10_FinishedOnlyAfterAllSettled ==
    Finished => AllSettled

====
